---- MODULE Spec2Model ----
(***************************************************************************)
(* Model of the WorkSphere room-booking service (bookingService.ts), its   *)
(* legacy predecessor, and the form handlers of app.ts that call it.       *)
(*                                                                         *)
(* Strings are sequences of one-character strings, so that the regular     *)
(* expressions and the date parsing of the code are computed, not assumed. *)
(* Time is counted in hours since 1970-01-01T00:00Z.                       *)
(***************************************************************************)
EXTENDS Integers, Sequences, FiniteSets, TLC

VARIABLES
    bookingsItem,   \* localStorage['roomBookings']: <<>> (absent) or <<text>>
    versionItem,    \* localStorage['roomBookingsVersion']: <<>> or <<version>>
    now,            \* the clock, hours since the epoch (UTC)
    tz,             \* the host's offset from UTC in hours (local = UTC + tz)
    last,           \* the last Store call: its name and how it settled
    form,           \* app.ts: the values of the room, date and time inputs
    disabledTimes,  \* app.ts: the time options shown as "(Occupato)"
    updatePending,  \* app.ts: the debounce timer of updateAvailableTimeSlots is armed
    handlers,       \* app.ts: the submissions suspended at `await saveBooking`
    outcomes,       \* app.ts: how each finished or suspended submission went
    message,        \* app.ts: the message element: its type, whether it is shown
    timers,         \* app.ts: the auto-hide timers armed, by the second they are due
    elapsed,        \* seconds since the page was loaded
    pc,             \* crash model: the position inside saveBooking/deleteBooking
    frame           \* crash model: the locals of the call in progress

vars == <<bookingsItem, versionItem, now, tz, last, form, disabledTimes,
          updatePending, handlers, outcomes, message, timers, elapsed, pc, frame>>

storeVars == <<bookingsItem, versionItem>>
messageVars == <<message, timers, elapsed>>
appVars == <<form, disabledTimes, updatePending, handlers, outcomes, messageVars>>
crashVars == <<pc, frame>>

-----------------------------------------------------------------------------
(* Bounds of the model *)

MaxBookings == 2      \* saves are not tried once this many records are stored
MaxTicks == 1         \* how many days the clock advances

(* Program constants *)

DEFAULT_DURATION == 60
HoursPerDay == 24
MessageSeconds == 5

-----------------------------------------------------------------------------
(* Strings *)

Digits == {"0", "1", "2", "3", "4", "5", "6", "7", "8", "9"}

DigitVal(c) ==
    CASE c = "0" -> 0 [] c = "1" -> 1 [] c = "2" -> 2 [] c = "3" -> 3
      [] c = "4" -> 4 [] c = "5" -> 5 [] c = "6" -> 6 [] c = "7" -> 7
      [] c = "8" -> 8 [] c = "9" -> 9

AllDigits(s, from, to) == \A i \in from..to : s[i] \in Digits

RECURSIVE NumVal(_, _, _)
NumVal(s, from, to) ==
    IF to < from THEN 0
    ELSE 10 * NumVal(s, from, to - 1) + DigitVal(s[to])

\* /^\d{4}-\d{2}-\d{2}$/.test(s)
DateRe(s) ==
    /\ Len(s) = 10
    /\ AllDigits(s, 1, 4) /\ s[5] = "-"
    /\ AllDigits(s, 6, 7) /\ s[8] = "-"
    /\ AllDigits(s, 9, 10)

\* /^\d{2}:\d{2}$/.test(s)
TimeRe(s) ==
    /\ Len(s) = 5
    /\ AllDigits(s, 1, 2) /\ s[3] = ":"
    /\ AllDigits(s, 4, 5)

\* JavaScript truthiness of a string and of a number
TruthyStr(s) == s # <<>>
TruthyNum(n) == n # 0

-----------------------------------------------------------------------------
(* Dates *)

\* days from 1970-01-01 to the civil date y-m-d (proleptic Gregorian)
DaysFromCivil(y, m, d) ==
    LET yy  == IF m <= 2 THEN y - 1 ELSE y
        era == yy \div 400
        yoe == yy - era * 400
        mp  == IF m > 2 THEN m - 3 ELSE m + 9
        doy == (153 * mp + 2) \div 5 + d - 1
        doe == yoe * 365 + yoe \div 4 - yoe \div 100 + doy
    IN  era * 146097 + doe - 719468

\* new Date(s) for the date-only forms of the ECMAScript date-time string
\* format (YYYY, YYYY-MM, YYYY-MM-DD), which are read as UTC: <<hours>>, or
\* <<>> for an Invalid Date (NaN).  Every other string of the model's input
\* sets ("" and strings that are no date at all) is an Invalid Date too.
ParseDate(s) ==
    LET ok4  == Len(s) >= 4 /\ AllDigits(s, 1, 4)
        ok7  == ok4 /\ Len(s) >= 7 /\ s[5] = "-" /\ AllDigits(s, 6, 7)
        ok10 == ok7 /\ Len(s) = 10 /\ s[8] = "-" /\ AllDigits(s, 9, 10)
        y    == NumVal(s, 1, 4)
        m    == IF Len(s) >= 7 THEN NumVal(s, 6, 7) ELSE 1
        d    == IF Len(s) = 10 THEN NumVal(s, 9, 10) ELSE 1
        wellFormed == \/ (Len(s) = 4 /\ ok4)
                      \/ (Len(s) = 7 /\ ok7)
                      \/ (Len(s) = 10 /\ ok10)
    IN  IF wellFormed /\ m \in 1..12 /\ d \in 1..31
        THEN <<DaysFromCivil(y, m, d) * HoursPerDay>>
        ELSE <<>>

\* The strings of the model
D0614 == <<"2", "0", "2", "4", "-", "0", "6", "-", "1", "4">>
D0615 == <<"2", "0", "2", "4", "-", "0", "6", "-", "1", "5">>
D0616 == <<"2", "0", "2", "4", "-", "0", "6", "-", "1", "6">>
D1345 == <<"2", "0", "2", "4", "-", "1", "3", "-", "4", "5">>   \* no such month
DYear == <<"2", "0", "2", "0">>                                \* "2020"
DJunk == <<"t", "o", "m", "o", "r", "r", "o", "w">>
T0900 == <<"0", "9", ":", "0", "0">>
T1000 == <<"1", "0", ":", "0", "0">>
T9999 == <<"9", "9", ":", "9", "9">>
T900  == <<"9", ":", "0", "0">>
EmptyStr == <<>>

DateStrings == {D0614, D0615, D0616, D1345, DYear, DJunk, EmptyStr}
TimeStrings == {T0900, T1000, T9999, T900, EmptyStr}

\* DateRe, ParseDate and TimeRe of every string of the model, computed once
DateFacts == [s \in DateStrings |-> [matches |-> DateRe(s), parsed |-> ParseDate(s)]]
TimeFacts == [s \in TimeStrings |-> TimeRe(s)]

\* today taken at midnight UTC instead of midnight local
LocalMidnight_Utc(t, offset) == (t \div HoursPerDay) * HoursPerDay

\* const today = new Date(); today.setHours(0, 0, 0, 0): local midnight, in UTC hours
LocalMidnight(t, offset) == ((t + offset) \div HoursPerDay) * HoursPerDay - offset

\* bookingDate < today, false when bookingDate is an Invalid Date
IsPastDate(s, t, offset) ==
    LET bookingDate == DateFacts[s].parsed
    IN  bookingDate # <<>> /\ bookingDate[1] < LocalMidnight(t, offset)

\* new Date().toISOString().split('T')[0] and the local calendar day, as day numbers
UtcDay(t) == t \div HoursPerDay
LocalDay(t, offset) == (t + offset) \div HoursPerDay

-----------------------------------------------------------------------------
(* Bookings *)

STORAGE_VERSION == "1.0"

\* A Booking object.  Optional fields are <<>> when undefined; a generated
\* id is <<Date.now(), random>>; createdAt is <<"Date", t>> in memory and
\* <<"string", t>> once it went through JSON.  obj = FALSE is a JSON null
\* standing where a booking object should be.
Booking(roomId, date, time, duration, bookedBy) ==
    [obj |-> TRUE, id |-> <<>>, roomId |-> roomId, date |-> date, time |-> time,
     duration |-> duration, bookedBy |-> bookedBy, createdAt |-> <<>>]

Triple(b) == <<b.roomId, b.date, b.time>>

\* `booking_${Date.now()}_${Math.random().toString(36).substr(2, 9)}`
generateBookingId(t, rnd) == <<t, rnd>>

\* JSON.parse(JSON.stringify(b)) of one booking: a Date becomes a string
JsonRoundTrip(b) ==
    [b EXCEPT !.createdAt = IF b.createdAt = <<>> THEN <<>>
                            ELSE <<"string", b.createdAt[2]>>]

RECURSIVE JsonArray(_)
JsonArray(bs) ==
    IF bs = <<>> THEN <<>>
    ELSE <<JsonRoundTrip(Head(bs))>> \o JsonArray(Tail(bs))

\* the text JSON.stringify(bookings) and a text that JSON.parse rejects
JsonText(bs) == [ok |-> TRUE, arr |-> JsonArray(bs)]
GarbageText == [ok |-> FALSE, arr |-> <<>>]

ERR_ROOM == "Room ID must be a positive number"
ERR_DATE == "Date must be in YYYY-MM-DD format"
ERR_TIME == "Time must be in HH:MM format"
ERR_PAST == "Cannot book dates in the past"

\* validateBooking returning at the first rule that fails
validateErrors_FirstOnly(b, t, offset) ==
    IF ~TruthyNum(b.roomId) \/ b.roomId <= 0 THEN <<ERR_ROOM>>
    ELSE IF ~TruthyStr(b.date) \/ ~DateFacts[b.date].matches THEN <<ERR_DATE>>
    ELSE IF ~TruthyStr(b.time) \/ ~TimeFacts[b.time] THEN <<ERR_TIME>>
    ELSE IF IsPastDate(b.date, t, offset) THEN <<ERR_PAST>>
    ELSE <<>>

\* validateBooking(booking).errors at clock t in a host at UTC+offset
validateErrors(b, t, offset) ==
    (IF ~TruthyNum(b.roomId) \/ b.roomId <= 0 THEN <<ERR_ROOM>> ELSE <<>>)
    \o (IF ~TruthyStr(b.date) \/ ~DateFacts[b.date].matches THEN <<ERR_DATE>> ELSE <<>>)
    \o (IF ~TruthyStr(b.time) \/ ~TimeFacts[b.time] THEN <<ERR_TIME>> ELSE <<>>)
    \o (IF IsPastDate(b.date, t, offset) THEN <<ERR_PAST>> ELSE <<>>)

validateBooking(b, t, offset) ==
    LET errors == validateErrors(b, t, offset)
    IN  [isValid |-> errors = <<>>, errors |-> errors]

\* initializeStorage(): does it throw, and the version tag it leaves.
\* getFails: localStorage.getItem throws; setFails: localStorage.setItem throws.
initializeStorageThrows(ver, getFails, setFails) ==
    getFails \/ (ver # <<STORAGE_VERSION>> /\ setFails)

\* initializeStorage stamping the tag only where there is none
initializeStorage_OnlyWhenAbsent(ver, getFails, setFails) ==
    IF initializeStorageThrows(ver, getFails, setFails) THEN ver
    ELSE IF ver = <<>> THEN <<STORAGE_VERSION>>
    ELSE ver

initializeStorage(ver, getFails, setFails) ==
    IF initializeStorageThrows(ver, getFails, setFails) THEN ver
    ELSE <<STORAGE_VERSION>>

\* getBookings(): every failure inside its try block yields []
getBookings(item, ver, t, offset, getFails, setFails) ==
    IF initializeStorageThrows(ver, getFails, setFails) THEN <<>>
    ELSE IF item = <<>> THEN <<>>
    ELSE IF ~item[1].ok THEN <<>>
    ELSE IF \E i \in 1..Len(item[1].arr) : ~item[1].arr[i].obj THEN <<>>
    ELSE LET Keep(b) == validateBooking(b, t, offset).isValid
         IN  SelectSeq(item[1].arr, Keep)

\* isSlotAvailable comparing the stored date with the time asked for
isSlotAvailable_DateVsTime(roomId, date, time, item, ver, t, offset, getFails, setFails) ==
    IF ~TruthyNum(roomId) \/ ~TruthyStr(date) \/ ~TruthyStr(time) THEN FALSE
    ELSE LET bookings == getBookings(item, ver, t, offset, getFails, setFails)
         IN  ~ \E i \in 1..Len(bookings) :
                  /\ bookings[i].roomId = roomId
                  /\ bookings[i].date = time
                  /\ bookings[i].time = time

\* isSlotAvailable forgetting the room
isSlotAvailable_AnyRoom(roomId, date, time, item, ver, t, offset, getFails, setFails) ==
    IF ~TruthyNum(roomId) \/ ~TruthyStr(date) \/ ~TruthyStr(time) THEN FALSE
    ELSE LET bookings == getBookings(item, ver, t, offset, getFails, setFails)
         IN  ~ \E i \in 1..Len(bookings) :
                  /\ bookings[i].date = date
                  /\ bookings[i].time = time

\* isSlotAvailable(roomId, date, time)
isSlotAvailable(roomId, date, time, item, ver, t, offset, getFails, setFails) ==
    IF ~TruthyNum(roomId) \/ ~TruthyStr(date) \/ ~TruthyStr(time) THEN FALSE
    ELSE LET bookings == getBookings(item, ver, t, offset, getFails, setFails)
         IN  ~ \E i \in 1..Len(bookings) :
                  /\ bookings[i].roomId = roomId
                  /\ bookings[i].date = date
                  /\ bookings[i].time = time

\* getBookingsForRoomAndDate(roomId, date)
getBookingsForRoomAndDate(roomId, date, item, ver, t, offset, getFails, setFails) ==
    LET Match(b) == b.roomId = roomId /\ b.date = date
    IN  SelectSeq(getBookings(item, ver, t, offset, getFails, setFails), Match)

\* newBooking built as { id, createdAt, duration, ...booking }: the caller's
\* fields win
newBooking_CallerWins(c, t, rnd) ==
    [c EXCEPT !.id = IF c.id = <<>> THEN generateBookingId(t, rnd) ELSE c.id,
              !.createdAt = IF c.createdAt = <<>> THEN <<"Date", t>> ELSE c.createdAt,
              !.duration = IF c.duration = <<>> \/ c.duration = <<0>>
                           THEN <<DEFAULT_DURATION>> ELSE c.duration]

\* the newBooking object built by saveBooking
newBooking(c, t, rnd) ==
    [c EXCEPT !.id = generateBookingId(t, rnd),
              !.createdAt = <<"Date", t>>,
              !.duration = IF c.duration = <<>> \/ c.duration = <<0>>
                           THEN <<DEFAULT_DURATION>> ELSE c.duration]

\* saveBooking asking isSlotAvailable before validateBooking
saveOutcome_AvailabilityFirst(c, item, ver, t, offset, getFails, setFails) ==
    IF initializeStorageThrows(ver, getFails, setFails) THEN "storage"
    ELSE IF ~isSlotAvailable(c.roomId, c.date, c.time, item, <<STORAGE_VERSION>>,
                             t, offset, getFails, setFails) THEN "conflict"
    ELSE IF ~validateBooking(c, t, offset).isValid THEN "invalid"
    ELSE IF setFails THEN "storage"
    ELSE "ok"

\* How saveBooking(c) settles: "ok", or the rejection
\*   "invalid"  Validation failed: ...
\*   "conflict" Selected time slot is no longer available
\*   "storage"  Failed to save booking. Please try again.
saveOutcome(c, item, ver, t, offset, getFails, setFails) ==
    IF initializeStorageThrows(ver, getFails, setFails) THEN "storage"
    ELSE IF ~validateBooking(c, t, offset).isValid THEN "invalid"
    ELSE IF ~isSlotAvailable(c.roomId, c.date, c.time, item, <<STORAGE_VERSION>>,
                             t, offset, getFails, setFails) THEN "conflict"
    ELSE IF setFails THEN "storage"
    ELSE "ok"

\* saveBooking writing the list without the push
savedBookings_NoPush(c, rnd, item, t, offset, getFails, setFails) ==
    getBookings(item, <<STORAGE_VERSION>>, t, offset, getFails, setFails)

\* saveBooking putting the new booking first (unshift for push)
savedBookings_NewFirst(c, rnd, item, t, offset, getFails, setFails) ==
    <<newBooking(c, t, rnd)>>
       \o getBookings(item, <<STORAGE_VERSION>>, t, offset, getFails, setFails)

\* the collection saveBooking writes when it gets as far as setItem
savedBookings(c, rnd, item, t, offset, getFails, setFails) ==
    Append(getBookings(item, <<STORAGE_VERSION>>, t, offset, getFails, setFails),
           newBooking(c, t, rnd))

\* How deleteBooking(id) settles: "ok", "notfound" or "storage"
deletedBookings(id, item, ver, t, offset, getFails, setFails) ==
    LET Other(b) == b.id # id
    IN  SelectSeq(getBookings(item, ver, t, offset, getFails, setFails), Other)

\* deleteBooking resolving without noticing that setItem threw
deleteOutcome_WriteUnchecked(id, item, ver, t, offset, getFails, setFails) ==
    IF Len(deletedBookings(id, item, ver, t, offset, getFails, setFails))
         = Len(getBookings(item, ver, t, offset, getFails, setFails))
    THEN "notfound"
    ELSE "ok"

deleteOutcome(id, item, ver, t, offset, getFails, setFails) ==
    IF Len(deletedBookings(id, item, ver, t, offset, getFails, setFails))
         = Len(getBookings(item, ver, t, offset, getFails, setFails))
    THEN "notfound"
    ELSE IF setFails THEN "storage"
    ELSE "ok"

\* the array held under 'roomBookings', [] when there is none to read
storedArray(item) == IF item = <<>> \/ ~item[1].ok THEN <<>> ELSE item[1].arr

-----------------------------------------------------------------------------
(* The inputs the model enumerates *)

\* what the form of app.ts submits: { roomId, date, time }
Candidates ==
    {Booking(r, d, T0900, <<>>, <<>>) : r \in {1, 2}, d \in {D0615, D0616}}
    \cup {Booking(1, D0616, T1000, <<>>, <<>>),
          Booking(0, D0615, T0900, <<>>, <<>>), Booking(1, EmptyStr, T0900, <<>>, <<>>),
          Booking(1, D0615, EmptyStr, <<>>, <<>>)}

\* the values Math.random() takes in the model
Rnds == {0, 1}
TzOffsets == {-5, 0, 2}

InitialNow == DaysFromCivil(2024, 6, 15) * HoursPerDay
TickHours == HoursPerDay

Stored == storedArray(bookingsItem)
StoredTriples == {Triple(Stored[i]) : i \in 1..Len(Stored)}

\* the ids a caller may pass to deleteBooking: those stored, and one that is not
StoredIds == {Stored[i].id : i \in 1..Len(Stored)}
NoSuchId == <<0, 0>>

NoCall == [op |-> "none", out |-> "none"]

-----------------------------------------------------------------------------
(* The Store: one action per exported call, each a whole synchronous call *)

StoreInit ==
    /\ bookingsItem = <<>>
    /\ versionItem = <<>>
    /\ now = InitialNow
    /\ tz \in TzOffsets
    /\ last = NoCall

\* the message element before any showMessage: hidden
NoMessage == [type |-> "none", visible |-> FALSE, shownAt |-> 0]

AppIdle ==
    /\ form = [room |-> 0, date |-> EmptyStr, time |-> EmptyStr]
    /\ disabledTimes = {}
    /\ updatePending = FALSE
    /\ handlers = <<>>
    /\ outcomes = <<>>
    /\ message = NoMessage
    /\ timers = {}
    /\ elapsed = 0

CrashIdle ==
    /\ pc = "idle"
    /\ frame = <<>>

Init == StoreInit /\ AppIdle /\ CrashIdle

\* saveBooking(c)
SaveBooking(c, rnd, getFails, setFails) ==
    /\ Len(Stored) < MaxBookings
    /\ LET out == saveOutcome(c, bookingsItem, versionItem, now, tz, getFails, setFails)
       IN  /\ versionItem' = initializeStorage(versionItem, getFails, setFails)
           /\ bookingsItem' =
                 IF out = "ok"
                 THEN <<JsonText(savedBookings(c, rnd, bookingsItem, now, tz,
                                               getFails, setFails))>>
                 ELSE bookingsItem
           /\ last' = [op |-> "saveBooking", out |-> out]
    /\ UNCHANGED <<now, tz, appVars, crashVars>>

\* deleteBooking(id)
DeleteBooking(id, getFails, setFails) ==
    /\ LET out == deleteOutcome(id, bookingsItem, versionItem, now, tz, getFails, setFails)
       IN  /\ versionItem' = initializeStorage(versionItem, getFails, setFails)
           /\ bookingsItem' =
                 IF out = "ok"
                 THEN <<JsonText(deletedBookings(id, bookingsItem, versionItem, now, tz,
                                                 getFails, setFails))>>
                 ELSE bookingsItem
           /\ last' = [op |-> "deleteBooking", out |-> out]
    /\ UNCHANGED <<now, tz, appVars, crashVars>>

\* clearAllBookings removing the version key in place of 'roomBookings'
ClearAllBookings_VersionKey(removeFails) ==
    /\ versionItem' = IF removeFails THEN versionItem ELSE <<>>
    /\ last' = [op |-> "clearAllBookings", out |-> "ok"]
    /\ UNCHANGED <<bookingsItem, now, tz, appVars, crashVars>>

\* clearAllBookings(): localStorage.removeItem, any failure swallowed
ClearAllBookings(removeFails) ==
    /\ bookingsItem' = IF removeFails THEN bookingsItem ELSE <<>>
    /\ last' = [op |-> "clearAllBookings", out |-> "ok"]
    /\ UNCHANGED <<versionItem, now, tz, appVars, crashVars>>

\* isSlotAvailable(roomId, date, time): a query; it stamps the version tag
\* when it gets as far as getBookings
IsSlotAvailable(roomId, date, time, getFails, setFails) ==
    /\ versionItem' =
          IF ~TruthyNum(roomId) \/ ~TruthyStr(date) \/ ~TruthyStr(time)
          THEN versionItem
          ELSE initializeStorage(versionItem, getFails, setFails)
    /\ last' = [op |-> "isSlotAvailable",
                out |-> IF isSlotAvailable(roomId, date, time, bookingsItem, versionItem,
                                           now, tz, getFails, setFails)
                        THEN "true" ELSE "false"]
    /\ UNCHANGED <<bookingsItem, now, tz, appVars, crashVars>>

\* the calendar moves on by a day; no Store call is the last event any more
Tick ==
    /\ now < InitialNow + MaxTicks * TickHours
    /\ now' = now + TickHours
    /\ last' = NoCall
    /\ UNCHANGED <<bookingsItem, versionItem, tz, appVars, crashVars>>

Next ==
    \/ \E c \in Candidates, rnd \in Rnds, setFails \in BOOLEAN :
          SaveBooking(c, rnd, FALSE, setFails)
    \/ \E id \in StoredIds \cup {NoSuchId}, setFails \in BOOLEAN :
          DeleteBooking(id, FALSE, setFails)
    \/ ClearAllBookings(FALSE)
    \/ \E c \in Candidates :
          IsSlotAvailable(c.roomId, c.date, c.time, FALSE, FALSE)
    \/ Tick

Spec == Init /\ [][Next]_vars

-----------------------------------------------------------------------------
(* The Store on a medium that fails and over content it did not write *)

\* a JSON null in the array, and an object that is no valid booking
NullEntry == [Booking(0, EmptyStr, EmptyStr, <<>>, <<>>) EXCEPT !.obj = FALSE]
MalformedEntry == Booking(0, DJunk, T900, <<>>, <<>>)

\* getBookings(): a query; it stamps the version tag
GetBookings(getFails, setFails) ==
    /\ versionItem' = initializeStorage(versionItem, getFails, setFails)
    /\ last' = [op |-> "getBookings",
                out |-> IF getBookings(bookingsItem, versionItem, now, tz,
                                       getFails, setFails) = <<>>
                        THEN "empty" ELSE "some"]
    /\ UNCHANGED <<bookingsItem, now, tz, appVars, crashVars>>

\* something other than this Store rewrites 'roomBookings': a text that is
\* no JSON, or the array with a null or a malformed object added
Tamper ==
    /\ Len(Stored) < MaxBookings
    /\ bookingsItem' \in {<<GarbageText>>,
                          <<[ok |-> TRUE, arr |-> Append(Stored, NullEntry)]>>,
                          <<[ok |-> TRUE, arr |-> Append(Stored, MalformedEntry)]>>}
    /\ bookingsItem' # bookingsItem
    /\ last' = NoCall
    /\ UNCHANGED <<versionItem, now, tz, appVars, crashVars>>

NextFault ==
    \/ \E c \in Candidates, rnd \in Rnds, getFails \in BOOLEAN, setFails \in BOOLEAN :
          SaveBooking(c, rnd, getFails, setFails)
    \/ \E id \in StoredIds \cup {NoSuchId}, getFails \in BOOLEAN, setFails \in BOOLEAN :
          DeleteBooking(id, getFails, setFails)
    \/ \E removeFails \in BOOLEAN : ClearAllBookings(removeFails)
    \/ \E c \in Candidates, getFails \in BOOLEAN, setFails \in BOOLEAN :
          IsSlotAvailable(c.roomId, c.date, c.time, getFails, setFails)
    \/ \E getFails \in BOOLEAN, setFails \in BOOLEAN : GetBookings(getFails, setFails)
    \/ Tick
    \/ Tamper

SpecFault == Init /\ [][NextFault]_vars

-----------------------------------------------------------------------------
(* The legacy booking service, which shares the 'roomBookings' key *)

\* legacy getBookings(): data ? JSON.parse(data) : [], [] on any error
legacyGetBookings(item, getFails) ==
    IF getFails THEN <<>>
    ELSE IF item = <<>> THEN <<>>
    ELSE IF ~item[1].ok THEN <<>>
    ELSE item[1].arr

\* legacy saveBooking(booking): push and write, nothing checked
LegacySaveBooking(c, getFails, setFails) ==
    /\ Len(Stored) < MaxBookings
    /\ bookingsItem' =
          IF setFails THEN bookingsItem
          ELSE <<JsonText(Append(legacyGetBookings(bookingsItem, getFails), c))>>
    /\ last' = [op |-> "legacySaveBooking", out |-> IF setFails THEN "storage" ELSE "ok"]
    /\ UNCHANGED <<versionItem, now, tz, appVars, crashVars>>

NextLegacy ==
    \/ Next
    \/ \E c \in Candidates, setFails \in BOOLEAN : LegacySaveBooking(c, FALSE, setFails)

SpecLegacy == Init /\ [][NextLegacy]_vars

-----------------------------------------------------------------------------
(* app.ts: the booking form *)

MaxSubmits == 2       \* how many submissions that pass the input check are followed

RoomOptions == {0, 1, 2}              \* 0: the "Seleziona una sala" option
TimeOptions == {EmptyStr, T0900}
DateChoices == {D0615, D0616}

\* new Date().toISOString().split('T')[0]
TodayString(t) ==
    CHOOSE s \in DateStrings :
        DateFacts[s].matches /\ DateFacts[s].parsed = <<UtcDay(t) * HoursPerDay>>

\* validateBookingInput(roomId, date, time).isValid
validateBookingInput(roomId, date, time, t, offset) ==
    /\ TruthyNum(roomId)
    /\ TruthyStr(date) /\ ~IsPastDate(date, t, offset)
    /\ TruthyStr(time)

\* updateAvailableTimeSlots(): the form it leaves and the options it disables
bookedTimes(f, item, ver, t, offset) ==
    LET bookings == getBookingsForRoomAndDate(f.room, f.date, item, ver, t, offset,
                                              FALSE, FALSE)
    IN  {bookings[i].time : i \in 1..Len(bookings)}

updatedForm(f, item, ver, t, offset) ==
    IF ~TruthyNum(f.room) \/ ~TruthyStr(f.date) THEN f
    ELSE IF f.time # EmptyStr /\ f.time \in bookedTimes(f, item, ver, t, offset)
    THEN [f EXCEPT !.time = EmptyStr]
    ELSE f

updatedDisabled(f, dis, item, ver, t, offset) ==
    IF ~TruthyNum(f.room) \/ ~TruthyStr(f.date) THEN dis
    ELSE bookedTimes(f, item, ver, t, offset) \cap (TimeOptions \ {EmptyStr})

\* showMessage(text, type) called `at' seconds after the load: the element
\* it leaves, and the timers armed once its setTimeout is added.  Two timers
\* due in the same second both hide the element, so the due seconds are kept
\* as a set.
showMessage(type, at) == [type |-> type, visible |-> TRUE, shownAt |-> at]
armedTimers(ts, at) == ts \cup {at + MessageSeconds}

\* the page after initializeApp(), which ends by showing a success message
AppInit ==
    /\ StoreInit
    /\ CrashIdle
    /\ form = [room |-> 0, date |-> TodayString(now), time |-> EmptyStr]
    /\ disabledTimes = {}
    /\ updatePending = FALSE
    /\ handlers = <<>>
    /\ outcomes = <<>>
    /\ message = showMessage("success", 0)
    /\ timers = armedTimers({}, 0)
    /\ elapsed = 0

\* the change listeners of the room and date inputs arm the debounce timer
ChangeRoom(r) ==
    /\ r # form.room
    /\ form' = [form EXCEPT !.room = r]
    /\ updatePending' = TRUE
    /\ UNCHANGED <<storeVars, now, tz, last, disabledTimes, handlers, outcomes,
                   messageVars, crashVars>>

ChangeDate(d) ==
    /\ d # form.date
    /\ form' = [form EXCEPT !.date = d]
    /\ updatePending' = TRUE
    /\ UNCHANGED <<storeVars, now, tz, last, disabledTimes, handlers, outcomes,
                   messageVars, crashVars>>

\* the user picks a time option that is not disabled
ChangeTime(t) ==
    /\ t # form.time
    /\ t \notin disabledTimes
    /\ form' = [form EXCEPT !.time = t]
    /\ UNCHANGED <<storeVars, now, tz, last, disabledTimes, updatePending, handlers,
                   outcomes, messageVars, crashVars>>

\* the debounce timer fires: updateAvailableTimeSlots()
DebouncedUpdate ==
    /\ updatePending
    /\ updatePending' = FALSE
    /\ versionItem' = IF ~TruthyNum(form.room) \/ ~TruthyStr(form.date) THEN versionItem
                      ELSE initializeStorage(versionItem, FALSE, FALSE)
    /\ form' = updatedForm(form, bookingsItem, versionItem, now, tz)
    /\ disabledTimes' = updatedDisabled(form, disabledTimes, bookingsItem, versionItem,
                                        now, tz)
    /\ UNCHANGED <<bookingsItem, now, tz, last, handlers, outcomes, messageVars,
                   crashVars>>

\* handleBookingSubmission from the submit event to its `await`: the input
\* check, the availability check and the whole of saveBooking, whose
\* executor runs synchronously inside the call
submitOutcome(f, item, ver, t, offset, setFails) ==
    IF ~validateBookingInput(f.room, f.date, f.time, t, offset) THEN "inputError"
    ELSE IF ~isSlotAvailable(f.room, f.date, f.time, item, ver, t, offset, FALSE, FALSE)
    THEN "booked"
    ELSE saveOutcome(Booking(f.room, f.date, f.time, <<>>, <<>>), item,
                     initializeStorage(ver, FALSE, FALSE), t, offset, FALSE, setFails)

HandleBookingSubmission(rnd, setFails) ==
    /\ Len(outcomes) < MaxSubmits
    /\ LET out == submitOutcome(form, bookingsItem, versionItem, now, tz, setFails)
           c   == Booking(form.room, form.date, form.time, <<>>, <<>>)
       IN  /\ outcomes' = IF out = "inputError" THEN outcomes
                          ELSE Append(outcomes, [key |-> Triple(c), out |-> out])
           /\ versionItem' = IF out = "inputError" THEN versionItem
                             ELSE initializeStorage(versionItem, FALSE, FALSE)
           /\ bookingsItem' =
                 IF out = "ok"
                 THEN <<JsonText(savedBookings(c, rnd, bookingsItem, now, tz, FALSE, FALSE))>>
                 ELSE bookingsItem
           /\ last' = IF out = "inputError" THEN last
                      ELSE IF out = "booked"
                      THEN [op |-> "isSlotAvailable", out |-> "false"]
                      ELSE [op |-> "saveBooking", out |-> out]
           /\ handlers' = IF out \in {"inputError", "booked"} THEN handlers
                          ELSE Append(handlers, out)
           /\ IF out \in {"inputError", "booked"}
              THEN /\ message' = showMessage("error", elapsed)
                   /\ timers' = armedTimers(timers, elapsed)
              ELSE UNCHANGED <<message, timers>>
    /\ UNCHANGED <<now, tz, form, disabledTimes, updatePending, elapsed, crashVars>>

\* the rest of handleBookingSubmission, after the await: on success the
\* confirmation, resetForm() and updateAvailableTimeSlots(), which returns
\* at once because no room is selected any more; on failure the error message
ResumeSubmission ==
    /\ handlers # <<>>
    /\ handlers' = Tail(handlers)
    /\ form' = IF Head(handlers) = "ok"
               THEN [room |-> 0, date |-> TodayString(now), time |-> EmptyStr]
               ELSE form
    /\ message' = showMessage(IF Head(handlers) = "ok" THEN "success" ELSE "error",
                              elapsed)
    /\ timers' = armedTimers(timers, elapsed)
    /\ UNCHANGED <<storeVars, now, tz, last, disabledTimes, updatePending, outcomes,
                   elapsed, crashVars>>

NextApp ==
    \/ \E r \in RoomOptions : ChangeRoom(r)
    \/ \E d \in DateChoices : ChangeDate(d)
    \/ \E t \in TimeOptions : ChangeTime(t)
    \/ DebouncedUpdate
    \/ \E setFails \in BOOLEAN : HandleBookingSubmission(0, setFails)
    \/ ResumeSubmission

SpecApp == AppInit /\ [][NextApp]_vars

-----------------------------------------------------------------------------
(* saveBooking and deleteBooking one storage access at a time, in a process *)
(* that may stop between any two of them                                    *)

\* saveBooking writing by removeItem followed by setItem
saveWrites_ClearFirst(bookings) == << <<>>, <<JsonText(bookings)>> >>

\* the values the call gives 'roomBookings', one per call of the medium:
\* localStorage.setItem(BOOKINGS_KEY, JSON.stringify(bookings)), once
saveWrites(bookings) == << <<JsonText(bookings)>> >>

\* deleteBooking calling removeItem before it writes the filtered array
deleteWrites_RemoveFirst(filteredBookings) == << <<>>, <<JsonText(filteredBookings)>> >>

\* localStorage.setItem(BOOKINGS_KEY, JSON.stringify(filteredBookings)), once
deleteWrites(filteredBookings) == << <<JsonText(filteredBookings)>> >>

BeginSave(c, rnd) ==
    /\ pc = "idle"
    /\ Len(Stored) < MaxBookings
    /\ pc' = "initialize"
    /\ frame' = [op |-> "saveBooking", c |-> c, rnd |-> rnd, id |-> <<>>,
                 before |-> bookingsItem, writes |-> <<>>, out |-> "none"]
    /\ UNCHANGED <<storeVars, now, tz, last, appVars>>

BeginDelete(id) ==
    /\ pc = "idle"
    /\ pc' = "read"
    /\ frame' = [op |-> "deleteBooking", c |-> NullEntry, rnd |-> 0, id |-> id,
                 before |-> bookingsItem, writes |-> <<>>, out |-> "none"]
    /\ UNCHANGED <<storeVars, now, tz, last, appVars>>

\* saveBooking: initializeStorage()
SaveInitialize ==
    /\ pc = "initialize"
    /\ versionItem' = initializeStorage(versionItem, FALSE, FALSE)
    /\ pc' = "check"
    /\ UNCHANGED <<bookingsItem, now, tz, last, appVars, frame>>

\* saveBooking: validateBooking, isSlotAvailable, getBookings and the push
SaveCheck ==
    /\ pc = "check"
    /\ LET out == saveOutcome(frame.c, bookingsItem, versionItem, now, tz, FALSE, FALSE)
       IN  IF out = "ok"
           THEN /\ pc' = "write"
                /\ frame' = [frame EXCEPT !.writes =
                               saveWrites(savedBookings(frame.c, frame.rnd, bookingsItem,
                                                        now, tz, FALSE, FALSE))]
           ELSE /\ pc' = "settle"
                /\ frame' = [frame EXCEPT !.out = out]
    /\ UNCHANGED <<storeVars, now, tz, last, appVars>>

\* deleteBooking: getBookings and the filter
DeleteRead ==
    /\ pc = "read"
    /\ versionItem' = initializeStorage(versionItem, FALSE, FALSE)
    /\ LET out == deleteOutcome(frame.id, bookingsItem, versionItem, now, tz, FALSE, FALSE)
       IN  IF out = "ok"
           THEN /\ pc' = "write"
                /\ frame' = [frame EXCEPT !.writes =
                               deleteWrites(deletedBookings(frame.id, bookingsItem,
                                                versionItem, now, tz, FALSE, FALSE))]
           ELSE /\ pc' = "settle"
                /\ frame' = [frame EXCEPT !.out = out]
    /\ UNCHANGED <<bookingsItem, now, tz, last, appVars>>

\* one call of the medium on 'roomBookings'; it may throw
StorageWrite(setFails) ==
    /\ pc = "write"
    /\ IF setFails
       THEN /\ pc' = "settle"
            /\ frame' = [frame EXCEPT !.out = "storage", !.writes = <<>>]
            /\ UNCHANGED bookingsItem
       ELSE /\ bookingsItem' = Head(frame.writes)
            /\ IF Len(frame.writes) = 1
               THEN /\ pc' = "settle"
                    /\ frame' = [frame EXCEPT !.out = "ok", !.writes = <<>>]
               ELSE /\ pc' = "write"
                    /\ frame' = [frame EXCEPT !.writes = Tail(frame.writes)]
    /\ UNCHANGED <<versionItem, now, tz, last, appVars>>

\* resolve or reject
Settle ==
    /\ pc = "settle"
    /\ pc' = "idle"
    /\ last' = [op |-> frame.op, out |-> frame.out]
    /\ frame' = <<>>
    /\ UNCHANGED <<storeVars, now, tz, appVars>>

\* the process stops inside the call: its memory is lost, localStorage stays
Crash ==
    /\ pc # "idle"
    /\ pc' = "idle"
    /\ frame' = <<>>
    /\ last' = [op |-> frame.op, out |-> "crashed"]
    /\ UNCHANGED <<storeVars, now, tz, appVars>>

TickIdle == pc = "idle" /\ Tick

NextCrash ==
    \/ \E c \in Candidates, rnd \in Rnds : BeginSave(c, rnd)
    \/ \E id \in StoredIds \cup {NoSuchId} : BeginDelete(id)
    \/ SaveInitialize
    \/ SaveCheck
    \/ DeleteRead
    \/ \E setFails \in BOOLEAN : StorageWrite(setFails)
    \/ Settle
    \/ Crash
    \/ TickIdle

SpecCrash == Init /\ [][NextCrash]_vars

-----------------------------------------------------------------------------
(* Properties of the Store *)

\* C1: no two bookings of the persisted collection have the same
\* (roomId, date, time), whatever saves, deletes, clears and day changes
\* came before.
C1_NoDoubleBooking ==
    \A i, j \in 1..Len(Stored) :
        i # j => Triple(Stored[i]) # Triple(Stored[j])

\* two bookings are stored, the second one saved after the day changed
C1_Witness ==
    /\ Len(Stored) = 2
    /\ Stored[1].createdAt[2] < Stored[2].createdAt[2]
    /\ last = [op |-> "saveBooking", out |-> "ok"]

\* C4: a save whose triple was stored by the save just before it is
\* rejected as a slot conflict and leaves the persisted collection as it was.
C4_SecondSaveConflicts ==
    [][\A c \in Candidates, rnd \in Rnds, setFails \in BOOLEAN :
          ( /\ last = [op |-> "saveBooking", out |-> "ok"]
            /\ Triple(c) = Triple(Stored[Len(Stored)])
            /\ SaveBooking(c, rnd, FALSE, setFails) )
          => (last'.out = "conflict" /\ bookingsItem' = bookingsItem)]_vars

\* a save was just rejected as a conflict and the slot it lost is stored
C4_Witness ==
    /\ last = [op |-> "saveBooking", out |-> "conflict"]
    /\ Len(Stored) = 1

\* C5: a valid candidate whose triple no stored booking has is accepted,
\* whatever else is stored, when the write succeeds; it is then stored.
C5_FreeSlotAccepted ==
    [][\A c \in Candidates, rnd \in Rnds :
          ( /\ last'.op = "saveBooking"
            /\ validateBooking(c, now, tz).isValid
            /\ Triple(c) \notin StoredTriples
            /\ SaveBooking(c, rnd, FALSE, FALSE) )
          => ( /\ last'.out = "ok"
               /\ Triple(c) \in {Triple(storedArray(bookingsItem')[i]) :
                                    i \in 1..Len(storedArray(bookingsItem'))} )]_vars

\* two rooms are booked for the same date and time
C5_Witness ==
    /\ last = [op |-> "saveBooking", out |-> "ok"]
    /\ Len(Stored) = 2
    /\ Stored[1].roomId # Stored[2].roomId
    /\ Stored[1].date = Stored[2].date
    /\ Stored[1].time = Stored[2].time

\* C6: around every successful save of (r, d, t), isSlotAvailable(r, d, t)
\* is true in the state before it and false in the state after it.
C6_AvailableBeforeNotAfter ==
    [][\A c \in Candidates, rnd \in Rnds, setFails \in BOOLEAN :
          (last' = [op |-> "saveBooking", out |-> "ok"] /\ SaveBooking(c, rnd, FALSE, setFails))
          => ( /\ isSlotAvailable(c.roomId, c.date, c.time, bookingsItem, versionItem,
                                  now, tz, FALSE, FALSE)
               /\ ~isSlotAvailable(c.roomId, c.date, c.time, bookingsItem', versionItem',
                                   now', tz', FALSE, FALSE) )]_vars

\* a save has just succeeded next to an older booking
C6_Witness ==
    /\ last = [op |-> "saveBooking", out |-> "ok"]
    /\ Len(Stored) = 2
    /\ Stored[1].roomId = Stored[2].roomId

\* C9: a stored booking leaves the persisted collection only in a
\* deleteBooking of its id or in clearAllBookings.
C9_RemovedOnlyByDelete ==
    [][\A i \in 1..Len(Stored) :
          \/ \E j \in 1..Len(storedArray(bookingsItem')) :
                storedArray(bookingsItem')[j] = Stored[i]
          \/ \E setFails \in BOOLEAN : DeleteBooking(Stored[i].id, FALSE, setFails)
          \/ ClearAllBookings(FALSE)]_vars

ReadFails(getFails, setFails) ==
    \/ initializeStorageThrows(versionItem, getFails, setFails)
    \/ (bookingsItem # <<>> /\ ~bookingsItem[1].ok)
    \/ \E i \in 1..Len(Stored) : ~Stored[i].obj

C8_FailsClosed ==
    [][\A c \in Candidates, getFails \in BOOLEAN, setFails \in BOOLEAN :
          ( /\ getFails \/ (bookingsItem # <<>> /\ ~bookingsItem[1].ok)
            /\ IsSlotAvailable(c.roomId, c.date, c.time, getFails, setFails) )
          => last'.out = "false"]_vars

\* C2: every step that adds a booking to the persisted collection has
\* validated that booking and found its slot available in the state it
\* started from.
C2_EveryWriteChecked ==
    [][\A j \in 1..Len(storedArray(bookingsItem')) :
          LET b == storedArray(bookingsItem')[j]
          IN  (\A i \in 1..Len(Stored) : Stored[i] # b)
              => ( /\ validateBooking(b, now, tz).isValid
                   /\ isSlotAvailable(b.roomId, b.date, b.time, bookingsItem,
                                      versionItem, now, tz, FALSE, FALSE) )]_vars

\* C3: of two submissions of the form for the same (roomId, date, time),
\* when the first stored a booking the second is refused as a conflict, by
\* the handler's own check or by saveBooking.
C3_OneOfTwoStores ==
    \A i, j \in 1..Len(outcomes) :
        (i < j /\ outcomes[i].key = outcomes[j].key /\ outcomes[i].out = "ok")
        => outcomes[j].out \in {"booked", "conflict"}

\* the second submission came while the first was still suspended at its
\* await and while the form showed the slot as free
C3_Witness ==
    /\ Len(outcomes) = 2
    /\ outcomes[1].key = outcomes[2].key
    /\ outcomes[1].out = "ok"
    /\ outcomes[2].out = "booked"
    /\ handlers = <<"ok">>
    /\ disabledTimes = {}

\* C10: at every point of a saveBooking or deleteBooking call, and so
\* after a stop of the process at that point, 'roomBookings' holds either
\* what it held before the call or the complete collection the call writes;
\* a later getBookings() reads one of the two.
C10_BeforeOrComplete ==
    pc # "idle" =>
        LET complete ==
              IF frame.op = "saveBooking"
              THEN Append(getBookings(frame.before, <<STORAGE_VERSION>>, now, tz,
                                      FALSE, FALSE),
                          JsonRoundTrip(newBooking(frame.c, now, frame.rnd)))
              ELSE LET Other(b) == b.id # frame.id
                   IN  SelectSeq(getBookings(frame.before, <<STORAGE_VERSION>>, now, tz,
                                             FALSE, FALSE), Other)
        IN  \/ bookingsItem = frame.before
            \/ /\ pc = "settle" /\ frame.out = "ok"
               /\ bookingsItem = <<[ok |-> TRUE, arr |-> complete]>>

\* the process stopped inside a save, and two bookings are stored
C10_Witness ==
    /\ last = [op |-> "saveBooking", out |-> "crashed"]
    /\ pc = "idle"
    /\ Len(Stored) = 2

-----------------------------------------------------------------------------
(* validateBooking on its own: any candidate, any hour of the day, any host *)

\* the hours of 2024-06-15 (UTC) and the offsets of the hosts, UTC-12 to UTC+14
ClockHours == {InitialNow + h : h \in 0..(HoursPerDay - 1)}
AllOffsets == {-12, -5, 0, 2, 14}

ValidateRooms == {-1, 0, 1}
ValidateInputs ==
    {Booking(r, d, t, <<>>, <<>>) : r \in ValidateRooms, d \in DateStrings, t \in TimeStrings}

ValidateInit ==
    /\ bookingsItem = <<>>
    /\ versionItem = <<>>
    /\ now \in ClockHours
    /\ tz \in AllOffsets
    /\ last = NoCall
    /\ AppIdle
    /\ CrashIdle

\* validateBooking(b): the call and the result it returned
ValidateBooking(b) ==
    /\ last' = [op |-> "validateBooking", out |-> validateBooking(b, now, tz), arg |-> b]
    /\ UNCHANGED <<bookingsItem, versionItem, now, tz, appVars, crashVars>>

NextValidate == \E b \in ValidateInputs : ValidateBooking(b)

SpecValidate == ValidateInit /\ [][NextValidate]_vars

-----------------------------------------------------------------------------
(* Properties of the Validator *)

AllErrors == <<ERR_ROOM, ERR_DATE, ERR_TIME, ERR_PAST>>

\* how many entries of the error list are the message e
CountOf(errors, e) == Cardinality({i \in 1..Len(errors) : errors[i] = e})

\* does candidate b break rule k of the four, at the clock and host of the state?
BreaksRule(k, b) ==
    CASE k = 1 -> b.roomId <= 0
      [] k = 2 -> ~DateRe(b.date)
      [] k = 3 -> ~TimeRe(b.time)
      [] k = 4 -> IsPastDate(b.date, now, tz)

\* C11: validateBooking's error list holds one entry for each of the four
\* rules the candidate breaks and nothing else, in the order room, date,
\* time, past; isValid is true exactly when the list is empty; and
\* {roomId: 0, date: "", time: ""} gets the room, date and time errors only.
C11_AllErrorsCollected ==
    last.op = "validateBooking" =>
        LET b == last.arg
            errors == last.out.errors
        IN  /\ \A k \in 1..4 :
                  CountOf(errors, AllErrors[k]) = IF BreaksRule(k, b) THEN 1 ELSE 0
            /\ \A i, j \in 1..Len(errors) :
                  i < j => \E k, l \in 1..4 :
                             k < l /\ errors[i] = AllErrors[k] /\ errors[j] = AllErrors[l]
            /\ last.out.isValid <=> (errors = <<>>)
            /\ (b.roomId = 0 /\ b.date = EmptyStr /\ b.time = EmptyStr)
                  => errors = <<ERR_ROOM, ERR_DATE, ERR_TIME>>

\* a candidate that breaks all four rules got all four errors
C11_Witness ==
    /\ last.op = "validateBooking"
    /\ last.arg.roomId = 0 /\ last.arg.date = DYear /\ last.arg.time = EmptyStr
    /\ last.out.errors = AllErrors
    /\ ~last.out.isValid

\* C12 as stated: a candidate whose date does not match \d{4}-\d{2}-\d{2}
\* is never given the past-date error.
C12_MalformedNeverPast ==
    (last.op = "validateBooking" /\ ~DateRe(last.arg.date))
        => CountOf(last.out.errors, ERR_PAST) = 0

\* the day number of a date string that matches the pattern and names a day
CalendarDay(s) == DateFacts[s].parsed[1] \div HoursPerDay
IsCalendarDay(s) == DateFacts[s].matches /\ DateFacts[s].parsed # <<>>

\* C14 as stated: a well-formed candidate dated on the host's current
\* calendar day or later is never given the past-date error, at any hour
\* and in any timezone.
C14_TodayNeverPast ==
    ( /\ last.op = "validateBooking"
      /\ IsCalendarDay(last.arg.date)
      /\ CalendarDay(last.arg.date) >= LocalDay(now, tz) )
        => CountOf(last.out.errors, ERR_PAST) = 0

-----------------------------------------------------------------------------
(* saveBooking with what it was given and what it settled with, at any hour *)

\* candidates dated yesterday, today and tomorrow (UTC), one with a duration
\* and an owner, one with an id, a createdAt and a zero duration of the
\* caller's, and one without a room
ClockCandidates ==
    {Booking(1, d, T0900, <<>>, <<>>) : d \in {D0614, D0615, D0616}}
    \cup {Booking(1, D0616, T1000, <<30>>, <<"ann">>),
          [Booking(2, D0616, T0900, <<0>>, <<>>)
              EXCEPT !.id = <<0, 1>>, !.createdAt = <<"string", 0>>],
          Booking(0, D0616, T0900, <<>>, <<>>)}

\* what the promise of saveBooking(c) settles with: resolve(newBooking), or
\* reject(new Error(...)) with the validation errors in the message
saveSettles(c, rnd, item, ver, t, offset, getFails, setFails) ==
    LET out == saveOutcome(c, item, ver, t, offset, getFails, setFails)
    IN  [out |-> out,
         errors |-> IF out = "invalid" THEN validateBooking(c, t, offset).errors ELSE <<>>,
         value |-> IF out = "ok" THEN <<newBooking(c, t, rnd)>> ELSE <<>>]

\* saveBooking(c), keeping the argument and the settled promise
SaveBookingOf(c, rnd) ==
    /\ Len(Stored) < MaxBookings
    /\ LET r == saveSettles(c, rnd, bookingsItem, versionItem, now, tz, FALSE, FALSE)
       IN  /\ versionItem' = initializeStorage(versionItem, FALSE, FALSE)
           /\ bookingsItem' =
                 IF r.out = "ok"
                 THEN <<JsonText(savedBookings(c, rnd, bookingsItem, now, tz, FALSE, FALSE))>>
                 ELSE bookingsItem
           /\ last' = [op |-> "saveBooking", out |-> r.out, arg |-> c,
                       errors |-> r.errors, value |-> r.value]
    /\ UNCHANGED <<now, tz, appVars, crashVars>>

NextClock ==
    \/ \E c \in ClockCandidates : SaveBookingOf(c, 0)
    \/ ClearAllBookings(FALSE)
    \/ Tick

SpecClock == ValidateInit /\ [][NextClock]_vars

\* C13: at any hour and in any timezone, saveBooking of a candidate dated on
\* a calendar day before the host's current calendar day is rejected with a
\* validation failure that carries the past-date error, and stores nothing.
C13_PastDateRejected ==
    [][\A c \in ClockCandidates :
          ( /\ last'.op = "saveBooking" /\ last'.arg = c
            /\ IsCalendarDay(c.date)
            /\ CalendarDay(c.date) < LocalDay(now, tz)
            /\ SaveBookingOf(c, 0) )
          => ( /\ last'.out = "invalid"
               /\ CountOf(last'.errors, ERR_PAST) = 1
               /\ bookingsItem' = bookingsItem )]_vars

\* a candidate dated on the current UTC day was rejected as past on a host
\* whose calendar is already a day ahead
C13_Witness ==
    /\ last.op = "saveBooking" /\ last.out = "invalid"
    /\ last.errors = <<ERR_PAST>>
    /\ CalendarDay(last.arg.date) = UtcDay(now)
    /\ LocalDay(now, tz) = UtcDay(now) + 1

\* C15: a candidate that fails validateBooking is rejected with the
\* validation failure and its errors, also when its triple is stored; the
\* slot-conflict rejection is given only to candidates that pass validateBooking.
C15_StructureBeforeAvailability ==
    [][\A c \in ClockCandidates :
          (last'.op = "saveBooking" /\ last'.arg = c /\ SaveBookingOf(c, 0))
          => LET errors == validateBooking(c, now, tz).errors
             IN  /\ errors # <<>> => (last'.out = "invalid" /\ last'.errors = errors)
                 /\ last'.out = "conflict" => errors = <<>>]_vars

\* a candidate was rejected as invalid while a booking with its triple is stored
C15_Witness ==
    /\ last.op = "saveBooking" /\ last.out = "invalid"
    /\ Triple(last.arg) \in StoredTriples

\* C16 as stated: the booking a successful save returns has the candidate's
\* roomId, date, time and owner, an id and a createdAt of the Store's, and the
\* candidate's duration when it gave one, 60 otherwise.
C16_ReturnedAsSpecified ==
    [][\A c \in ClockCandidates :
          (last'.op = "saveBooking" /\ last'.out = "ok" /\ last'.arg = c
             /\ SaveBookingOf(c, 0))
          => LET v == last'.value[1]
             IN  /\ v.roomId = c.roomId /\ v.date = c.date /\ v.time = c.time
                 /\ v.bookedBy = c.bookedBy
                 /\ v.id = generateBookingId(now, 0)
                 /\ v.createdAt = <<"Date", now>>
                 /\ v.duration = IF c.duration # <<>> THEN c.duration
                                  ELSE <<DEFAULT_DURATION>>]_vars

\* C16 amended: as above, but the duration is the candidate's when it gave
\* one other than 0, and 60 when it gave none or gave 0.
C16_ReturnedWithDefault ==
    [][\A c \in ClockCandidates :
          (last'.op = "saveBooking" /\ last'.out = "ok" /\ last'.arg = c
             /\ SaveBookingOf(c, 0))
          => LET v == last'.value[1]
             IN  /\ v.roomId = c.roomId /\ v.date = c.date /\ v.time = c.time
                 /\ v.bookedBy = c.bookedBy
                 /\ v.id = generateBookingId(now, 0)
                 /\ v.createdAt = <<"Date", now>>
                 /\ v.duration = IF c.duration # <<>> /\ c.duration # <<0>>
                                  THEN c.duration ELSE <<DEFAULT_DURATION>>]_vars

\* a save succeeded for a candidate that came with an id, a createdAt and a
\* duration of 0: it got the Store's id and createdAt and 60 minutes
C16_Witness ==
    /\ last.op = "saveBooking" /\ last.out = "ok"
    /\ last.arg.id = <<0, 1>> /\ last.arg.duration = <<0>>
    /\ last.value[1].id # last.arg.id
    /\ last.value[1].createdAt[1] = "Date"
    /\ last.value[1].duration = <<DEFAULT_DURATION>>

-----------------------------------------------------------------------------
(* Properties of the Store: what is saved, listed and deleted *)

\* the ids of the bookings getBookings() returns after the step
ListedIdsAfter ==
    LET list == getBookings(bookingsItem', versionItem', now', tz', FALSE, FALSE)
    IN  {list[i].id : i \in 1..Len(list)}

\* C17 as stated: right after a successful save, getBookings() holds exactly
\* one booking with the id the save returned, and that booking has the
\* candidate's roomId, date, time and owner.
C17_RoundTrip ==
    [][\A c \in Candidates, rnd \in Rnds :
          ( /\ last' = [op |-> "saveBooking", out |-> "ok"]
            /\ SaveBooking(c, rnd, FALSE, FALSE) )
          => LET list == getBookings(bookingsItem', versionItem', now', tz', FALSE, FALSE)
                 hits == {i \in 1..Len(list) : list[i].id = newBooking(c, now, rnd).id}
             IN  /\ Cardinality(hits) = 1
                 /\ \A i \in hits :
                       /\ Triple(list[i]) = Triple(c)
                       /\ list[i].bookedBy = c.bookedBy]_vars

\* C18 as stated: deleteBooking of the id of a stored booking succeeds and
\* getBookings() then holds no booking with that id; deleteBooking of an id
\* no stored booking has (a deleted one among them) fails as not found.
C18_DeleteThenNotFound ==
    [][\A id \in StoredIds \cup {NoSuchId} :
          DeleteBooking(id, FALSE, FALSE)
          => IF id \in StoredIds
             THEN last'.out = "ok" /\ id \notin ListedIdsAfter
             ELSE last'.out = "notfound"]_vars

-----------------------------------------------------------------------------
(* Properties of the Store on damaged content and a failing medium *)

\* a record of the stored array that is an object and passes validateBooking
WellFormed(b) == b.obj /\ validateBooking(b, now, tz).isValid

\* C19 as stated: getBookings() returns exactly the well-formed records of
\* the stored array, in their stored order, whatever else the array holds.
C19_MalformedDropped ==
    getBookings(bookingsItem, versionItem, now, tz, FALSE, FALSE)
        = SelectSeq(Stored, WellFormed)

\* the stored text is there and is no JSON
Unparseable == bookingsItem # <<>> /\ ~bookingsItem[1].ok

\* C20: when getItem throws or the stored text is unparseable, getBookings
\* and getBookingsForRoomAndDate return []; a saveBooking or deleteBooking
\* that would succeed on a working medium is rejected with the storage
\* failure when setItem throws.
C20_ReadsDegradeWritesReport ==
    /\ \A getFails \in BOOLEAN, setFails \in BOOLEAN :
          (getFails \/ Unparseable)
          => /\ getBookings(bookingsItem, versionItem, now, tz, getFails, setFails) = <<>>
             /\ \A c \in Candidates :
                   getBookingsForRoomAndDate(c.roomId, c.date, bookingsItem, versionItem,
                                             now, tz, getFails, setFails) = <<>>
    /\ \A c \in Candidates :
          saveOutcome(c, bookingsItem, versionItem, now, tz, FALSE, FALSE) = "ok"
          => saveOutcome(c, bookingsItem, versionItem, now, tz, FALSE, TRUE) = "storage"
    /\ \A id \in StoredIds :
          deleteOutcome(id, bookingsItem, versionItem, now, tz, FALSE, FALSE) = "ok"
          => deleteOutcome(id, bookingsItem, versionItem, now, tz, FALSE, TRUE) = "storage"

\* a delete of a stored booking was rejected because the write failed
C20_Witness ==
    /\ last = [op |-> "deleteBooking", out |-> "storage"]
    /\ Len(Stored) = 1
    /\ WellFormed(Stored[1])

-----------------------------------------------------------------------------
(* How each exported function completes: by returning or by throwing.  A   *)
(* try block that throws hands over to its catch block; a Promise executor *)
(* calls resolve and reject, and the first call settles the promise.       *)

Returned(v) == [kind |-> "return", val |-> v]
Thrown == [kind |-> "throw", val |-> <<>>]

\* try { body } catch (error) { handler }
TryCatch(body, handler) == IF body.kind = "throw" THEN handler ELSE body

\* the try block of getBookings: initializeStorage and JSON.parse may throw,
\* and validateBooking(null) throws a TypeError inside the filter
getBookingsTry(item, ver, t, offset, getFails, setFails) ==
    IF initializeStorageThrows(ver, getFails, setFails) THEN Thrown
    ELSE IF item = <<>> THEN Returned(<<>>)
    ELSE IF ~item[1].ok THEN Thrown
    ELSE IF \E i \in 1..Len(item[1].arr) : ~item[1].arr[i].obj THEN Thrown
    ELSE LET Keep(b) == validateBooking(b, t, offset).isValid
         IN  Returned(SelectSeq(item[1].arr, Keep))

\* getBookings without its try/catch
getBookingsCompletes_NoCatch(item, ver, t, offset, getFails, setFails) ==
    getBookingsTry(item, ver, t, offset, getFails, setFails)

getBookingsCompletes(item, ver, t, offset, getFails, setFails) ==
    TryCatch(getBookingsTry(item, ver, t, offset, getFails, setFails), Returned(<<>>))

isSlotAvailableCompletes(roomId, date, time, item, ver, t, offset, getFails, setFails) ==
    LET bookings == getBookingsCompletes(item, ver, t, offset, getFails, setFails)
        try == IF ~TruthyNum(roomId) \/ ~TruthyStr(date) \/ ~TruthyStr(time)
               THEN Returned(FALSE)
               ELSE IF bookings.kind = "throw" THEN Thrown
               ELSE Returned(~ \E i \in 1..Len(bookings.val) :
                                  /\ bookings.val[i].roomId = roomId
                                  /\ bookings.val[i].date = date
                                  /\ bookings.val[i].time = time)
    IN  TryCatch(try, Returned(FALSE))

getBookingsForRoomAndDateCompletes(roomId, date, item, ver, t, offset, getFails, setFails) ==
    LET bookings == getBookingsCompletes(item, ver, t, offset, getFails, setFails)
        Match(b) == b.roomId = roomId /\ b.date = date
        try == IF bookings.kind = "throw" THEN Thrown
               ELSE Returned(SelectSeq(bookings.val, Match))
    IN  TryCatch(try, Returned(<<>>))

\* clearAllBookings(): removeItem inside try/catch
clearAllBookingsCompletes(removeFails) ==
    TryCatch(IF removeFails THEN Thrown ELSE Returned(<<>>), Returned(<<>>))

\* A run of a Promise executor: how it ended and the calls of resolve and
\* reject it made, in order
Ran(calls) == [kind |-> "return", calls |-> calls]
Broke(calls) == [kind |-> "throw", calls |-> calls]
Resolve == [fn |-> "resolve", out |-> "ok"]
Reject(out) == [fn |-> "reject", out |-> out]

\* the try block of saveBooking's executor; a null argument makes
\* validateBooking throw
saveExecutorTry(c, item, ver, t, offset, getFails, setFails) ==
    IF initializeStorageThrows(ver, getFails, setFails) THEN Broke(<<>>)
    ELSE IF ~c.obj THEN Broke(<<>>)
    ELSE IF ~validateBooking(c, t, offset).isValid THEN Ran(<<Reject("invalid")>>)
    ELSE LET free == isSlotAvailableCompletes(c.roomId, c.date, c.time, item,
                         <<STORAGE_VERSION>>, t, offset, getFails, setFails)
             bookings == getBookingsCompletes(item, <<STORAGE_VERSION>>, t, offset,
                                              getFails, setFails)
         IN  IF free.kind = "throw" THEN Broke(<<>>)
             ELSE IF ~free.val THEN Ran(<<Reject("conflict")>>)
             ELSE IF bookings.kind = "throw" THEN Broke(<<>>)
             ELSE IF setFails THEN Broke(<<>>)
             ELSE Ran(<<Resolve>>)

\* saveBooking's executor without the `return` after the validation reject:
\* the run goes on to the availability check and the write
saveExecutor_NoReturn(c, item, ver, t, offset, getFails, setFails) ==
    IF initializeStorageThrows(ver, getFails, setFails) \/ ~c.obj
    THEN Ran(<<Reject("storage")>>)
    ELSE LET first == IF validateBooking(c, t, offset).isValid THEN <<>>
                      ELSE <<Reject("invalid")>>
             free == isSlotAvailableCompletes(c.roomId, c.date, c.time, item,
                         <<STORAGE_VERSION>>, t, offset, getFails, setFails)
         IN  IF ~free.val THEN Ran(first \o <<Reject("conflict")>>)
             ELSE IF setFails THEN Ran(first \o <<Reject("storage")>>)
             ELSE Ran(first \o <<Resolve>>)

\* the executor of saveBooking: try { ... } catch { reject(...) }
saveExecutor(c, item, ver, t, offset, getFails, setFails) ==
    LET try == saveExecutorTry(c, item, ver, t, offset, getFails, setFails)
    IN  IF try.kind = "throw" THEN Ran(try.calls \o <<Reject("storage")>>) ELSE try

\* the executor of deleteBooking
deleteExecutor(id, item, ver, t, offset, getFails, setFails) ==
    LET bookings == getBookingsCompletes(item, ver, t, offset, getFails, setFails)
        Other(b) == b.id # id
        try == IF bookings.kind = "throw" THEN Broke(<<>>)
               ELSE IF Len(SelectSeq(bookings.val, Other)) = Len(bookings.val)
               THEN Ran(<<Reject("notfound")>>)
               ELSE IF setFails THEN Broke(<<>>)
               ELSE Ran(<<Resolve>>)
    IN  IF try.kind = "throw" THEN Ran(try.calls \o <<Reject("storage")>>) ELSE try

\* new Promise(executor): the call returns the promise; the first call of
\* resolve or reject settles it, a throw of the executor rejects it when
\* nothing settled it before, and it stays pending otherwise
NewPromise(run) ==
    Returned(IF run.calls # <<>> THEN Head(run.calls)
             ELSE IF run.kind = "throw" THEN Reject("thrown")
             ELSE [fn |-> "pending", out |-> "none"])

saveBookingCompletes(c, item, ver, t, offset, getFails, setFails) ==
    NewPromise(saveExecutor(c, item, ver, t, offset, getFails, setFails))

deleteBookingCompletes(id, item, ver, t, offset, getFails, setFails) ==
    NewPromise(deleteExecutor(id, item, ver, t, offset, getFails, setFails))

\* The Store over every content 'roomBookings' may hold: what it wrote
\* itself on a working medium, and what Tamper made of it.  The failures of
\* the medium are tried in each state by the properties below.
NextContent ==
    \/ \E c \in Candidates : SaveBooking(c, 0, FALSE, FALSE)
    \/ \E id \in StoredIds \cup {NoSuchId} : DeleteBooking(id, FALSE, FALSE)
    \/ ClearAllBookings(FALSE)
    \/ GetBookings(FALSE, FALSE)
    \/ Tick
    \/ Tamper

SpecContent == Init /\ [][NextContent]_vars

\* the arguments tried: the candidates and null
AnyArgument == Candidates \cup {NullEntry}

\* C21: whatever the argument, the stored content and the failures of the
\* medium, each of the six exported functions returns: getBookings the list
\* the Store computes, isSlotAvailable and getBookingsForRoomAndDate a value,
\* clearAllBookings nothing, saveBooking and deleteBooking a promise that is
\* resolved or rejected.
C21_NoExceptionEscapes ==
    \A getFails \in BOOLEAN, setFails \in BOOLEAN :
        /\ getBookingsCompletes(bookingsItem, versionItem, now, tz, getFails, setFails)
              = Returned(getBookings(bookingsItem, versionItem, now, tz, getFails, setFails))
        /\ \A c \in AnyArgument :
              /\ isSlotAvailableCompletes(c.roomId, c.date, c.time, bookingsItem,
                                          versionItem, now, tz, getFails, setFails).kind
                    = "return"
              /\ getBookingsForRoomAndDateCompletes(c.roomId, c.date, bookingsItem,
                          versionItem, now, tz, getFails, setFails).kind = "return"
              /\ LET p == saveBookingCompletes(c, bookingsItem, versionItem, now, tz,
                                               getFails, setFails)
                 IN  p.kind = "return" /\ p.val.fn \in {"resolve", "reject"}
        /\ \A id \in StoredIds \cup {NoSuchId} :
              LET p == deleteBookingCompletes(id, bookingsItem, versionItem, now, tz,
                                              getFails, setFails)
              IN  p.kind = "return" /\ p.val.fn \in {"resolve", "reject"}
        /\ clearAllBookingsCompletes(getFails).kind = "return"

\* getBookings() was called on an array that holds a null next to a booking:
\* the TypeError stayed inside
C21_Witness ==
    /\ last = [op |-> "getBookings", out |-> "empty"]
    /\ Len(Stored) = 2
    /\ Stored[1].obj /\ ~Stored[2].obj

-----------------------------------------------------------------------------
(* saveBooking and deleteBooking step by step in a process that keeps      *)
(* running: an executor is synchronous code, so a call that began goes on  *)

NextSettle ==
    \/ \E c \in Candidates : BeginSave(c, 0)
    \/ \E id \in StoredIds \cup {NoSuchId} : BeginDelete(id)
    \/ SaveInitialize
    \/ SaveCheck
    \/ DeleteRead
    \/ \E setFails \in BOOLEAN : StorageWrite(setFails)
    \/ Settle

\* the steps of a call in progress
RunCall ==
    \/ SaveInitialize
    \/ SaveCheck
    \/ DeleteRead
    \/ \E setFails \in BOOLEAN : StorageWrite(setFails)
    \/ Settle

SpecSettle == Init /\ [][NextSettle]_vars /\ WF_vars(RunCall)

\* C22: a saveBooking or deleteBooking call that began comes to its end, and
\* its executor calls exactly one of resolve and reject, exactly once,
\* whatever the argument, the stored content and the failures of the medium;
\* the call made is the outcome the Store gives the call.
C22_SettlesExactlyOnce ==
    /\ [](\A getFails \in BOOLEAN, setFails \in BOOLEAN :
            /\ \A c \in AnyArgument :
                  LET run == saveExecutor(c, bookingsItem, versionItem, now, tz,
                                          getFails, setFails)
                  IN  /\ run.kind = "return"
                      /\ Len(run.calls) = 1
                      /\ c.obj => run.calls[1].out
                                     = saveOutcome(c, bookingsItem, versionItem, now, tz,
                                                   getFails, setFails)
                      /\ run.calls[1].fn = "resolve" <=> run.calls[1].out = "ok"
            /\ \A id \in StoredIds \cup {NoSuchId} :
                  LET run == deleteExecutor(id, bookingsItem, versionItem, now, tz,
                                            getFails, setFails)
                  IN  /\ run.kind = "return"
                      /\ Len(run.calls) = 1
                      /\ run.calls[1].out
                            = deleteOutcome(id, bookingsItem, versionItem, now, tz,
                                            getFails, setFails)
                      /\ run.calls[1].fn = "resolve" <=> run.calls[1].out = "ok")
    /\ (pc # "idle") ~> (pc = "idle")

\* a saveBooking call went through its steps next to a stored booking and
\* was rejected when its write failed
C22_Witness ==
    /\ pc = "idle"
    /\ last = [op |-> "saveBooking", out |-> "storage"]
    /\ Len(Stored) = 1

-----------------------------------------------------------------------------
(* initializeStorage() on its own, over every version tag it may find *)

\* the tag a browser may hold: none, one of an older release, the current one
OlderVersion == "0.9"
PreviousTags == {<<>>, <<OlderVersion>>, <<STORAGE_VERSION>>}

VersionInit ==
    /\ bookingsItem = <<>>
    /\ versionItem \in PreviousTags
    /\ now = InitialNow
    /\ tz \in TzOffsets
    /\ last = NoCall
    /\ AppIdle
    /\ CrashIdle

\* one run of initializeStorage(); `was' is the tag it found
InitializeStorage(getFails, setFails) ==
    /\ versionItem' = initializeStorage(versionItem, getFails, setFails)
    /\ last' = [op |-> "initializeStorage",
                out |-> IF initializeStorageThrows(versionItem, getFails, setFails)
                        THEN "thrown" ELSE "returned",
                was |-> versionItem]
    /\ UNCHANGED <<bookingsItem, now, tz, appVars, crashVars>>

\* the legacy service fills 'roomBookings' without touching the tag
NextVersion ==
    \/ \E getFails \in BOOLEAN, setFails \in BOOLEAN : InitializeStorage(getFails, setFails)
    \/ \E c \in Candidates : LegacySaveBooking(c, FALSE, FALSE)
    \/ \E c \in Candidates : SaveBooking(c, 0, FALSE, FALSE)
    \/ ClearAllBookings(FALSE)

SpecVersion == VersionInit /\ [][NextVersion]_vars

\* C23: a run of initializeStorage never changes the booking collection;
\* a run that returns leaves the version tag equal to the current version,
\* whether the tag it found was absent, equal or different; and a further
\* run on that tag changes nothing, whatever the medium does.
C23_InitializeIdempotent ==
    [][last'.op = "initializeStorage" =>
          /\ bookingsItem' = bookingsItem
          /\ last'.out = "returned" =>
                /\ versionItem' = <<STORAGE_VERSION>>
                /\ \A getFails \in BOOLEAN, setFails \in BOOLEAN :
                      initializeStorage(versionItem', getFails, setFails) = versionItem'
          /\ last'.out = "thrown" => versionItem' = versionItem]_vars

\* initializeStorage() returned after finding the tag of an older release
\* next to a stored booking
C23_Witness ==
    /\ last = [op |-> "initializeStorage", out |-> "returned", was |-> <<OlderVersion>>]
    /\ versionItem = <<STORAGE_VERSION>>
    /\ Len(Stored) = 1

-----------------------------------------------------------------------------
(* The order of the list *)

\* list(): getBookings() on a working medium
Listed == getBookings(bookingsItem, versionItem, now, tz, FALSE, FALSE)

\* C24: a successful save leaves the list as it was with the new booking,
\* as JSON gives it back, appended; a successful delete leaves the list as it
\* was without the bookings that carry the id, the others as they were and
\* in the order they had.
C24_InsertionOrder ==
    [][/\ (last'.op = "saveBooking" /\ last'.out = "ok") =>
             \E c \in Candidates :
                Listed' = Append(Listed, JsonRoundTrip(newBooking(c, now, 0)))
       /\ (last'.op = "deleteBooking" /\ last'.out = "ok") =>
             \E id \in StoredIds :
                /\ Listed' = SelectSeq(Listed, LAMBDA b : b.id # id)
                /\ Listed' # Listed]_vars

\* a delete took the older of two listed bookings and left the newer one
C24_Witness ==
    /\ last = [op |-> "deleteBooking", out |-> "ok"]
    /\ Len(Listed) = 1
    /\ Listed[1].id = <<now, 0>>
    /\ now > InitialNow

-----------------------------------------------------------------------------
(* What the persisted collection holds *)

\* C25 as stated: no two bookings of the persisted collection have the same
\* id.
C25_IdsDistinct ==
    \A i \in 1..Len(Stored), j \in 1..Len(Stored) :
        i # j => Stored[i].id # Stored[j].id

\* the rooms of appState.rooms, by id
KnownRooms == {1, 2, 3}

\* enum TimeSlot
Slot(h1, h2) == <<h1, h2, ":", "0", "0">>
TimeSlot ==
    {Slot("0", "9"), Slot("1", "0"), Slot("1", "1"), Slot("1", "2"),
     Slot("1", "4"), Slot("1", "5"), Slot("1", "6"), Slot("1", "7")}

\* candidates a caller of the exported saveBooking may pass: a room the
\* application has and one it has not, a slot and a time that is no slot,
\* no duration, a positive and a negative one
DomainCandidates ==
    {Booking(r, D0616, t, dur, <<>>) :
        r \in {1, 4}, t \in {T0900, T9999}, dur \in {<<>>, <<30>>, <<-30>>}}

NextDomain ==
    \/ \E c \in DomainCandidates : SaveBookingOf(c, 0)
    \/ \E id \in StoredIds \cup {NoSuchId} : DeleteBooking(id, FALSE, FALSE)
    \/ ClearAllBookings(FALSE)
    \/ Tick

SpecDomain == Init /\ [][NextDomain]_vars

\* C26 as stated: every booking of the persisted collection has the roomId
\* of a known Room.
C26_RoomKnown ==
    \A i \in 1..Len(Stored) : Stored[i].roomId \in KnownRooms

\* C27 as stated: every booking of the persisted collection has a time that
\* is one of the eight enumerated slots.
C27_TimeIsSlot ==
    \A i \in 1..Len(Stored) : Stored[i].time \in TimeSlot

\* C28 as stated: every booking of the persisted collection has a duration,
\* and it is a positive integer.
C28_DurationPositive ==
    \A i \in 1..Len(Stored) :
        Stored[i].duration # <<>> /\ Stored[i].duration[1] > 0

-----------------------------------------------------------------------------
(* clearAllBookings and the outcome of saveBooking *)

\* C29: right after clearAllBookings on a medium that carries out the
\* removal, getBookings() is empty, isSlotAvailable is true for every
\* candidate triple that is well-formed and not past, and the version tag
\* is what it was before the call.
C29_ClearEmptiesAll ==
    [][last'.op = "clearAllBookings" =>
          /\ Listed' = <<>>
          /\ Stored' = <<>>
          /\ \A c \in Candidates :
                validateBooking(c, now, tz).isValid =>
                   isSlotAvailable(c.roomId, c.date, c.time, bookingsItem', versionItem',
                                   now', tz', FALSE, FALSE)
          /\ versionItem' = versionItem]_vars

\* clearAllBookings ran on the second day over a storage this service had
\* stamped
C29_Witness ==
    /\ last = [op |-> "clearAllBookings", out |-> "ok"]
    /\ bookingsItem = <<>>
    /\ versionItem = <<STORAGE_VERSION>>
    /\ now > InitialNow

\* C30 as stated: whatever the medium does during the call, saveBooking
\* succeeds exactly when validateBooking reports the candidate valid,
\* isSlotAvailable returns true for its triple and the write does not fail.
C30_SucceedsExactlyWhen ==
    \A getFails \in BOOLEAN, setFails \in BOOLEAN : \A c \in Candidates :
        saveOutcome(c, bookingsItem, versionItem, now, tz, getFails, setFails) = "ok"
        <=> /\ validateBooking(c, now, tz).isValid
            /\ isSlotAvailable(c.roomId, c.date, c.time, bookingsItem, versionItem,
                                now, tz, getFails, setFails)
            /\ ~setFails

-----------------------------------------------------------------------------
(* Calls that fail *)

\* C31: a saveBooking or deleteBooking call that is about to reject (the
\* candidate is invalid, the slot is taken, the id is not found, or the
\* write threw) has left 'roomBookings' as it found it.
C31_FailureLeavesCollection ==
    (pc = "settle" /\ frame.out # "ok") => bookingsItem = frame.before

\* a deleteBooking call found its booking and its write threw
C31_Witness ==
    /\ pc = "settle"
    /\ frame.op = "deleteBooking"
    /\ frame.out = "storage"
    /\ Len(Stored) = 2

-----------------------------------------------------------------------------
(* app.ts: the message element and its auto-hide timers *)

MaxElapsed == 6       \* the seconds the page is followed after its load

\* the callback of one setTimeout of showMessage runs: classList.add('hidden')
AutoHide ==
    /\ \E due \in timers :
          /\ due <= elapsed
          /\ timers' = timers \ {due}
    /\ message' = [message EXCEPT !.visible = FALSE]
    /\ UNCHANGED <<storeVars, now, tz, last, form, disabledTimes, updatePending,
                   handlers, outcomes, elapsed, crashVars>>

\* a second passes; a timer that is due runs first
SecondPasses ==
    /\ elapsed < MaxElapsed
    /\ \A due \in timers : due > elapsed
    /\ elapsed' = elapsed + 1
    /\ UNCHANGED <<storeVars, now, tz, last, form, disabledTimes, updatePending,
                   handlers, outcomes, message, timers, crashVars>>

\* the page after its load, the user submitting the form, and time
NextMessage ==
    \/ \E r \in RoomOptions : ChangeRoom(r)
    \/ \E t \in TimeOptions : ChangeTime(t)
    \/ HandleBookingSubmission(0, FALSE)
    \/ ResumeSubmission
    \/ AutoHide
    \/ SecondPasses

SpecMessage == AppInit /\ [][NextMessage]_vars

\* C32 as stated: a message that is hidden was shown at least 5 seconds
\* before, whatever showMessage calls came before it.
C32_VisibleFiveSeconds ==
    ~message.visible => elapsed >= message.shownAt + MessageSeconds

====
